---- MODULE Spec2Model ----
(***************************************************************************)
(* The process supervisor of Wine-App-Manager: WineExecutor (launch),      *)
(* ProcessMonitor (process table, monitor thread, signals) and the parts   *)
(* of WineApplicationManager that drive them, together with the operating  *)
(* system they talk to (pids, /proc, kill, fork, pipe, the environment).   *)
(***************************************************************************)
EXTENDS Integers, Sequences, FiniteSets, TLC

(***************************************************************************)
(* Bounds of the exploration.                                              *)
(***************************************************************************)
MaxPid == 1
MaxClock == 3
MaxFd == 6
MaxCallbacks == 2
MaxHooks == 2
MaxUserVars == 1
MaxChanged == 1

Pids == 1..MaxPid
Fds == 1..MaxFd

(***************************************************************************)
(* Program constants.                                                      *)
(***************************************************************************)
SIGKILL == 9
SIGTERM == 15
SIGCONT == 18
SIGSTOP == 19

VARIABLES
    os,                     \* the OS process table: pid -> process entry
    monitored_processes,    \* ProcessMonitor::monitored_processes (std::map)
    state_change_callbacks, \* ProcessMonitor::state_change_callbacks
    monitoring_active,      \* ProcessMonitor::monitoring_active
    mon_pc,                 \* position of the monitor thread in monitor_loop
    mon_cur,                \* key the monitor thread's iteration is at (0: end)
    notifications,          \* every callback invocation so far, in order
    clock,                  \* system_clock, in polling intervals
    sync_wait,              \* pid execute_sync is blocked on in waitpid (0: none)
    current_process_pid,    \* WineExecutor::current_process_pid
    execution_active,       \* WineExecutor::execution_active
    config,                 \* WineExecutor::config (the fields the launch reads)
    custom_environment,     \* WineExecutor::custom_environment
    pre_launch_commands,    \* WineExecutor::pre_launch_commands
    post_launch_commands,   \* WineExecutor::post_launch_commands
    stdout_pipe,            \* WineExecutor::stdout_pipe[2]
    stderr_pipe,            \* WineExecutor::stderr_pipe[2]
    open_fds,               \* descriptors open in the supervisor process
    environ,                \* the supervisor's own process environment
    logger,                 \* the Logger and its worker thread
    prefix_configs,         \* WinePrefixManager::prefix_configs (std::map)
    prefix_files,           \* what is at each path under base_prefix_directory
    last                    \* the API call that returned in the latest step

vars == <<os, monitored_processes, state_change_callbacks, monitoring_active,
          mon_pc, mon_cur, notifications, clock, sync_wait,
          current_process_pid, execution_active, config, custom_environment,
          pre_launch_commands, post_launch_commands, stdout_pipe, stderr_pipe,
          open_fds, environ, logger, prefix_configs, prefix_files, last>>

prefixVars == <<prefix_configs, prefix_files>>

monitorVars == <<monitoring_active, mon_pc, mon_cur, notifications, clock>>
executorVars == <<current_process_pid, execution_active, stdout_pipe,
                  stderr_pipe, open_fds>>
settingVars == <<config, custom_environment, pre_launch_commands,
                 post_launch_commands>>

Min(S) == CHOOSE x \in S : \A y \in S : x <= y

(***************************************************************************)
(* The Logger.  log_buffer, async_logging and stop_logging are its         *)
(* members; written is what has reached the sinks (the log file and the    *)
(* console), accepted the messages pushed into log_buffer so far, logged   *)
(* the number of log calls so far (a message is its call's number),        *)
(* worker_pc the position of logging_thread: "none" (no thread), "test"    *)
(* (at the test of while (!stop_logging), log_mutex not held), "wait" (in  *)
(* wait_for), "exited" (returned, not joined); caller is what the thread   *)
(* that switches asynchronous logging off or destroys the Logger is doing: *)
(* "none", "disable" or "destroy" while it waits in join, "destroyed".     *)
(***************************************************************************)
MaxMessages == 3
\* Logger::max_buffer_size (10000), scaled
max_buffer_size == 2

\* Logger::Logger
NewLogger ==
    [async_logging |-> FALSE, stop_logging |-> FALSE, log_buffer |-> <<>>,
     written |-> <<>>, accepted |-> <<>>, logged |-> 0, worker_pc |-> "none",
     caller |-> "none"]

(***************************************************************************)
(* The prefix manager.  prefix_files gives for each path under             *)
(* base_prefix_directory what stat finds there: "none", "file" or          *)
(* "directory".                                                            *)
(***************************************************************************)
base_prefix_directory == "/h/.local/share/wineprefixes"
PrefixNames == {"old", "new"}

RECURSIVE back(_)
\* std::string::back of a string that is not empty
back(path) == IF Len(path) = 1 THEN Head(path) ELSE back(Tail(path))

\* Utils::join_paths
join_paths(path1, path2) ==
    IF path1 = "" THEN path2
    ELSE IF path2 = "" THEN path1
    ELSE IF back(path1) = "/" THEN path1 \o path2
    ELSE path1 \o "/" \o path2

PrefixPath(prefix_name) == join_paths(base_prefix_directory, prefix_name)
RegistryPath(prefix_name) == join_paths(PrefixPath(prefix_name), "system.reg")
PrefixPaths ==
    {PrefixPath(n) : n \in PrefixNames} \cup {RegistryPath(n) : n \in PrefixNames}

\* the prefixes directory as the constructor finds it: one prefix, "old",
\* that wineboot has initialised
FoundFiles ==
    [path \in PrefixPaths |->
        IF path = PrefixPath("old") THEN "directory"
        ELSE IF path = RegistryPath("old") THEN "file"
        ELSE "none"]

\* WinePrefixManager::WinePrefixManager: every directory found under
\* base_prefix_directory becomes an entry; the value kept is wine_prefix
LoadedPrefixes ==
    [n \in {m \in PrefixNames : FoundFiles[PrefixPath(m)] = "directory"} |->
        PrefixPath(n)]

\* Utils::directory_exists: stat succeeds and the mode is a directory
directory_exists(files, path) == files[path] = "directory"

\* Utils::create_directory: an existing directory is success, and so is a
\* mkdir that fails with EEXIST
create_directory(files, path, mkdir_ok) ==
    IF directory_exists(files, path) THEN [ok |-> TRUE, files |-> files]
    ELSE IF files[path] # "none" THEN [ok |-> TRUE, files |-> files]
    ELSE IF mkdir_ok THEN [ok |-> TRUE, files |-> [files EXCEPT ![path] = "directory"]]
    ELSE [ok |-> FALSE, files |-> files]

\* WinePrefixManager::initialize_registry: wineboot -u writes the registry
\* file system.reg into a prefix directory (wineboot_ok) or fails
initialize_registry(files, prefix_name, wineboot_ok) ==
    LET written ==
            IF /\ wineboot_ok
               /\ directory_exists(files, PrefixPath(prefix_name))
               /\ files[RegistryPath(prefix_name)] = "none"
            THEN [files EXCEPT ![RegistryPath(prefix_name)] = "file"]
            ELSE files
    IN  [ok |-> directory_exists(written, RegistryPath(prefix_name)),
         files |-> written]

(***************************************************************************)
(* The file system the launches look at, and the paths callers pass.       *)
(***************************************************************************)
HomeDirectory == "/h"
CurrentDirectory == "/w"
RegularFiles == {"/w/r.exe"}
Directories == {"/h", "/w", "/d"}

Paths == {"r.exe", "", "~/n.exe", "/d"}
ArgLists == {<<>>}

\* a file_exists that forgets the S_ISREG test: any path stat succeeds on
file_exists_any(path) == path \in RegularFiles \cup Directories

\* Utils::file_exists: stat succeeds and the mode is a regular file
file_exists(path) == path \in RegularFiles

\* WineExecutor::validate_executable (the extension only draws a warning)
validate_executable(exe_path) == file_exists(exe_path)

\* WineExecutor::resolve_path
resolve_path(path) ==
    IF path = "" THEN path
    ELSE IF Head(path) = "~" THEN HomeDirectory \o Tail(path)
    ELSE IF Head(path) # "/" THEN CurrentDirectory \o "/" \o path
    ELSE path

(***************************************************************************)
(* The environment: a process environment maps every key to a value or to  *)
(* Unset; a std::map<string,string> is a function on the keys it holds.    *)
(***************************************************************************)
Unset == "<unset>"
EnvKeys == {"WINEPREFIX", "WINEARCH", "WINE_VD_RESOLUTION", "CSMT",
            "WINEESYNC", "WINEFSYNC", "WINEDLLOVERRIDES", "DISPLAY",
            "WAYLAND_DISPLAY", "DXVK_HUD", "WINE_AUDIO_DRIVER", "MYVAR"}

\* setenv(3): with overwrite = 0 an existing value is kept
setenv(env, name, value, overwrite) ==
    IF overwrite \/ env[name] = Unset
    THEN [env EXCEPT ![name] = value]
    ELSE env

\* for (pair : map) setenv(pair.first, pair.second, 1)
setenv_all(env, map) ==
    [k \in EnvKeys |-> IF k \in DOMAIN map THEN map[k] ELSE env[k]]

\* WineExecutor::setup_environment
setup_environment(env, cfg, custom) ==
    LET e1 == setenv(env, "WINEPREFIX", cfg.wine_prefix, TRUE)
        e2 == IF cfg.architecture = "WIN32" THEN setenv(e1, "WINEARCH", "win32", TRUE)
              ELSE IF cfg.architecture = "WIN64" THEN setenv(e1, "WINEARCH", "win64", TRUE)
              ELSE e1
        e3 == IF cfg.enable_virtual_desktop /\ cfg.virtual_desktop_resolution # ""
              THEN setenv(e2, "WINE_VD_RESOLUTION", cfg.virtual_desktop_resolution, TRUE)
              ELSE e2
        e4 == IF cfg.enable_csmt THEN setenv(e3, "CSMT", "enabled", TRUE) ELSE e3
        e5 == IF cfg.enable_esync THEN setenv(e4, "WINEESYNC", "1", TRUE) ELSE e4
        e6 == IF cfg.enable_fsync THEN setenv(e5, "WINEFSYNC", "1", TRUE) ELSE e5
        e7 == IF cfg.audio_driver # ""
              THEN setenv(e6, "WINEDLLOVERRIDES", "winemapi.dll=n,b", TRUE)
              ELSE e6
        e8 == setenv_all(e7, custom)
    IN  setenv_all(e8, cfg.environment_variables)

RECURSIVE join_overrides(_)
\* the loop of setup_dll_overrides: the entries joined with ";"
join_overrides(list) ==
    IF Len(list) = 0 THEN ""
    ELSE IF Len(list) = 1 THEN list[1]
    ELSE list[1] \o ";" \o join_overrides(Tail(list))

\* WineExecutor::setup_dll_overrides
setup_dll_overrides(env, cfg) ==
    IF cfg.dll_overrides # <<>>
    THEN setenv(env, "WINEDLLOVERRIDES", join_overrides(cfg.dll_overrides), TRUE)
    ELSE env

\* WineExecutor::setup_graphics_environment
setup_graphics_environment(env, cfg) ==
    LET e1 == IF cfg.graphics_driver = "x11" THEN setenv(env, "DISPLAY", ":0", FALSE)
              ELSE IF cfg.graphics_driver = "wayland"
                   THEN setenv(env, "WAYLAND_DISPLAY", "wayland-0", FALSE)
              ELSE env
    IN  IF cfg.enable_dxvk THEN setenv(e1, "DXVK_HUD", "devinfo,fps", FALSE) ELSE e1

\* WineExecutor::setup_audio_environment
setup_audio_environment(env, cfg) ==
    IF cfg.audio_driver = "alsa" THEN setenv(env, "WINE_AUDIO_DRIVER", "alsa", TRUE)
    ELSE IF cfg.audio_driver = "pulse" THEN setenv(env, "WINE_AUDIO_DRIVER", "pulse", TRUE)
    ELSE IF cfg.audio_driver = "oss" THEN setenv(env, "WINE_AUDIO_DRIVER", "oss", TRUE)
    ELSE env

\* the environment part of WineExecutor::execute, in the order of its calls
assemble_environment(env, cfg, custom) ==
    setup_audio_environment(
        setup_graphics_environment(
            setup_dll_overrides(setup_environment(env, cfg, custom), cfg), cfg), cfg)

\* WineExecutor::build_environment_array: the child copies ::environ
build_environment_array(env) == env

(***************************************************************************)
(* Capture pipes.  A pipe pair is <<read end, write end>>; -1 is "none".   *)
(***************************************************************************)
NoPipe == <<-1, -1>>

\* pipe(2) needs two free descriptors of the process (else EMFILE) and
\* returns the lowest two
pipe_ok(open) == Cardinality(Fds \ open) >= 2

\* the pipe(2) call of a launch that fails for lack of system-wide resources
\* (ENFILE, ENOMEM), whatever the process itself has open
PipeFailures == {"stdout", "stderr"}
pipe_fds(open) ==
    LET a == Min(Fds \ open)
        b == Min((Fds \ open) \ {a})
    IN  <<a, b>>

\* the descriptor numbers among fds that close(2) is called on although the
\* executor holds no open descriptor of that number
NotOpen(fds, open) == (fds \ {-1}) \ open

\* WineExecutor::close_pipes: every entry that is not -1 is closed and reset;
\* bad: the numbers it closed that were not open
close_pipes(so, se, open) ==
    [ok |-> FALSE, failed |-> "none", so |-> NoPipe, se |-> NoPipe,
     open |-> open \ {so[1], so[2], se[1], se[2]},
     bad |-> NotOpen({so[1], so[2], se[1], se[2]}, open)]

\* WineExecutor::setup_pipes without the close_pipes() of its stderr branch
setup_pipes_no_close(cfg, so, se, open, fails) ==
    LET out_ok == pipe_ok(open) /\ fails # "stdout"
        out_made == cfg.capture_stdout /\ out_ok
        so1   == IF out_made THEN pipe_fds(open) ELSE so
        open1 == IF out_made THEN open \cup {so1[1], so1[2]} ELSE open
        err_ok == pipe_ok(open1) /\ fails # "stderr"
        err_made == cfg.capture_stderr /\ err_ok
        se1   == IF err_made THEN pipe_fds(open1) ELSE se
        open2 == IF err_made THEN open1 \cup {se1[1], se1[2]} ELSE open1
    IN  IF cfg.capture_stdout /\ ~out_ok
        THEN [ok |-> FALSE, failed |-> "stdout", so |-> so, se |-> se,
              open |-> open, bad |-> {}]
        ELSE IF cfg.capture_stderr /\ ~err_ok
        THEN [ok |-> FALSE, failed |-> "stderr", so |-> so1, se |-> se,
              open |-> open1, bad |-> {}]
        ELSE [ok |-> TRUE, failed |-> "none", so |-> so1, se |-> se1,
              open |-> open2, bad |-> {}]

\* WineExecutor::setup_pipes; fails is the pipe(2) call the system refuses
\* ("none": it refuses none)
setup_pipes(cfg, so, se, open, fails) ==
    LET out_ok == pipe_ok(open) /\ fails # "stdout"
        out_made == cfg.capture_stdout /\ out_ok
        so1   == IF out_made THEN pipe_fds(open) ELSE so
        open1 == IF out_made THEN open \cup {so1[1], so1[2]} ELSE open
        err_ok == pipe_ok(open1) /\ fails # "stderr"
        err_made == cfg.capture_stderr /\ err_ok
        se1   == IF err_made THEN pipe_fds(open1) ELSE se
        open2 == IF err_made THEN open1 \cup {se1[1], se1[2]} ELSE open1
    IN  IF cfg.capture_stdout /\ ~out_ok
        THEN [ok |-> FALSE, failed |-> "stdout", so |-> so, se |-> se,
              open |-> open, bad |-> {}]
        ELSE IF cfg.capture_stderr /\ ~err_ok
        THEN [close_pipes(so1, se, open1) EXCEPT !.failed = "stderr"]
        ELSE [ok |-> TRUE, failed |-> "none", so |-> so1, se |-> se1,
              open |-> open2, bad |-> {}]

(***************************************************************************)
(* The operating system's processes.  kind: "free" (no process has the     *)
(* pid), "child" (a child of the supervisor), "foreign" (an unrelated      *)
(* process of the same user).  ch is the run-state character of            *)
(* /proc/<pid>/stat; how/n is the wait status of a zombie.  capture is the  *)
(* set of the process's standard streams that are the write end of a       *)
(* capture pipe, out/err the bytes the process has written to those pipes, *)
(* blocked the stream whose write(2) the process is asleep in.  No code of *)
(* the supervisor calls read(2) on the read end of a capture pipe, so      *)
(* out/err are also what the pipes' buffers hold.                          *)
(***************************************************************************)
NoProcess ==
    [kind |-> "free", ch |-> "-", how |-> "none", n |-> 0, capture |-> {},
     out |-> <<>>, err |-> <<>>, blocked |-> "none"]
Streams == {"stdout", "stderr"}
Bytes == {"a", "b"}
\* the capacity of a pipe's kernel buffer (65536 bytes on Linux), scaled
PipeCapacity == 2
LiveChars == {"R", "S", "D"}
ExitCodes == {0, 1}
ResidentKb == 1

\* kill(pid, 0) == 0: some process, a zombie included, has the pid
is_process_alive(pid) == os[pid].kind # "free"

\* the process entry after it terminated: a child stays as a zombie until it
\* is waited for, a foreign process is reaped by its own parent
Terminated(e, how, n) ==
    IF e.kind = "child"
    THEN [e EXCEPT !.ch = "Z", !.how = how, !.n = n, !.blocked = "none"]
    ELSE NoProcess

\* kill(2) with a signal: the return value
kill_rc(pid, sig) == IF os[pid].kind = "free" THEN -1 ELSE 0

\* kill(2) with a signal: the process entry afterwards; obeys says whether a
\* SIGTERM terminates the target (it may be caught or ignored)
kill_effect(e, sig, obeys) ==
    IF e.kind = "free" \/ e.ch = "Z" THEN e
    ELSE IF sig = SIGKILL THEN Terminated(e, "sig", SIGKILL)
    ELSE IF sig = SIGSTOP THEN [e EXCEPT !.ch = "T"]
    ELSE IF sig = SIGCONT THEN (IF e.ch = "T" THEN [e EXCEPT !.ch = "R"] ELSE e)
    ELSE IF sig = SIGTERM /\ obeys /\ e.ch # "T" THEN Terminated(e, "sig", SIGTERM)
    ELSE e

(***************************************************************************)
(* ProcessInfo and the calls as their callers see them.                    *)
(***************************************************************************)
States == {"IDLE", "STARTING", "RUNNING", "PAUSED", "STOPPING", "STOPPED",
           "ERROR", "KILLED"}
UninitValues == {0, 7}

\* ProcessInfo(): value-initialised
DefaultInfo ==
    [pid |-> 0, state |-> "IDLE", executable_path |-> "", arguments |-> <<>>,
     start_time |-> 0, end_time |-> 0, exit_code |-> 0, stdout_data |-> <<>>,
     stderr_data |-> <<>>, memory_usage |-> 0, cpu_usage |-> 0]

NoEnv == [k \in EnvKeys |-> Unset]

\* a call: its arguments, what it returned (rtype "void": nothing) and the
\* system calls it made
Call(op) ==
    [op |-> op, path |-> "", pid |-> 0, rtype |-> "void", ret |-> 0,
     hooks |-> <<>>, hook_failed |-> 0, post_hooks |-> <<>>,
     pipe_failed |-> "none", fork_failed |-> FALSE, forked |-> FALSE,
     exec_failed |-> FALSE, bad_close |-> {}, sent |-> <<>>, child_env |-> NoEnv]

LaunchOps == {"execute", "execute_async", "execute_sync"}

\* execute_sync running the post-launch commands right after execute,
\* before it tests the pid and before it waits
LaunchReturnThenPostHooks(how, exe_path, pid, hooks, env) ==
    [Call(how) EXCEPT
        !.path = exe_path,
        !.rtype = IF how = "execute" THEN "pid_t"
                  ELSE IF how = "execute_async" THEN "bool"
                  ELSE IF pid <= 0 THEN "int" ELSE "blocked",
        !.ret = IF how = "execute" THEN pid
                ELSE IF how = "execute_async" THEN (IF pid > 0 THEN 1 ELSE 0)
                ELSE IF pid <= 0 THEN -1 ELSE 0,
        !.pid = IF pid > 0 THEN pid ELSE 0,
        !.hooks = hooks,
        !.post_hooks = IF how = "execute_sync" THEN post_launch_commands
                       ELSE <<>>,
        !.forked = pid > 0,
        !.child_env = env]

\* what execute / execute_async / execute_sync hand back for execute's pid
LaunchReturn(how, exe_path, pid, hooks, env) ==
    [Call(how) EXCEPT
        !.path = exe_path,
        !.rtype = IF how = "execute" THEN "pid_t"
                  ELSE IF how = "execute_async" THEN "bool"
                  ELSE IF pid <= 0 THEN "int" ELSE "blocked",
        !.ret = IF how = "execute" THEN pid
                ELSE IF how = "execute_async" THEN (IF pid > 0 THEN 1 ELSE 0)
                ELSE IF pid <= 0 THEN -1 ELSE 0,
        !.pid = IF pid > 0 THEN pid ELSE 0,
        !.hooks = hooks,
        !.forked = pid > 0,
        !.child_env = env]

(***************************************************************************)
(* The process table.                                                      *)
(***************************************************************************)
\* an exception left the monitor thread's function: std::terminate ended
\* the supervisor process, which makes no further call
Aborted == mon_pc = "aborted"

\* monitor_loop without its lock_guard
MonitorTakesNoLock == FALSE

\* monitor_mutex is held by the monitor thread from the start of a tick to
\* its end
MonitorHoldsLock == mon_pc \in {"locked", "stats"}

\* monitored_processes[pid] = info
add_process(table, pid, info) ==
    [q \in DOMAIN table \cup {pid} |-> IF q = pid THEN info ELSE table[q]]

\* a ProcessInfo whose state is left as value-initialised
NewProcessInfoNoState(pid, resolved_path, arguments, garbage) ==
    [pid |-> pid, state |-> "IDLE", executable_path |-> resolved_path,
     arguments |-> arguments, start_time |-> clock, end_time |-> 0,
     exit_code |-> 0, stdout_data |-> <<>>, stderr_data |-> <<>>,
     memory_usage |-> garbage, cpu_usage |-> garbage]

\* the ProcessInfo that execute fills in; memory_usage and cpu_usage are
\* never assigned and hold what the stack object held
NewProcessInfo(pid, resolved_path, arguments, garbage) ==
    [pid |-> pid, state |-> "STARTING", executable_path |-> resolved_path,
     arguments |-> arguments, start_time |-> clock, end_time |-> 0,
     exit_code |-> 0, stdout_data |-> <<>>, stderr_data |-> <<>>,
     memory_usage |-> garbage, cpu_usage |-> garbage]

(***************************************************************************)
(* Launch.  WineApplicationManager::run_executable(_sync) hold              *)
(* manager_mutex for the whole call, so no launch starts while a           *)
(* synchronous one waits.                                                  *)
(***************************************************************************)
FreePids == {p \in Pids : os[p].kind = "free"}

\* WineExecutor::handle_child_process: the child makes the write ends of
\* the capture pipes its standard output and error and execs the command;
\* when execvpe fails it prints the error and calls exit(1)
handle_child_process(exec_ok, cfg, so, se) ==
    LET capture == {stream \in Streams :
                       \/ stream = "stdout" /\ cfg.capture_stdout /\ so[2] # -1
                       \/ stream = "stderr" /\ cfg.capture_stderr /\ se[2] # -1}
        child == [NoProcess EXCEPT !.kind = "child", !.capture = capture]
    IN  IF exec_ok THEN [child EXCEPT !.ch = "R"]
        ELSE [child EXCEPT !.ch = "Z", !.how = "exit", !.n = 1]

\* WineExecutor::execute_pre_launch_commands stopping at a failed command
\* and reporting the failure
execute_pre_launch_commands_strict(commands, hook_fails) ==
    IF hook_fails = 0 THEN [ok |-> TRUE, ran |-> commands]
    ELSE [ok |-> FALSE, ran |-> SubSeq(commands, 1, hook_fails)]

\* WineExecutor::execute_pre_launch_commands: every command is run in order
\* through popen, whose result is not looked at; hook_fails is the index of
\* the command that fails (0: none does)
execute_pre_launch_commands(commands, hook_fails) ==
    [ok |-> TRUE, ran |-> commands]

\* WineExecutor::execute, entered as execute, execute_async or execute_sync.
\* hook_fails is the pre-launch command that fails (0: none); pipe_fails is the pipe(2) call the system refuses; fork_pid is fork's
\* result (-1: it failed); exec_ok is whether execvpe in the child succeeds;
\* garbage is what the uninitialised fields of the new ProcessInfo happen to
\* hold.
execute(how, exe_path, arguments, hook_fails, pipe_fails, fork_pid, exec_ok, garbage) ==
    LET resolved_path == resolve_path(exe_path)
        pre == execute_pre_launch_commands(pre_launch_commands, hook_fails)
        env == assemble_environment(environ, config, custom_environment)
        pipes == setup_pipes(config, stdout_pipe, stderr_pipe, open_fds,
                             pipe_fails)
        closed == close_pipes(pipes.so, pipes.se, pipes.open)
    IN
    /\ ~Aborted
    /\ sync_wait = 0
    /\ IF ~validate_executable(resolved_path) THEN
           /\ last' = LaunchReturn(how, exe_path, -1, <<>>, NoEnv)
           /\ UNCHANGED <<os, monitored_processes, state_change_callbacks,
                          monitorVars, sync_wait, executorVars, settingVars,
                          environ, logger,
                          prefixVars>>
       ELSE IF ~pre.ok THEN
           /\ last' = [LaunchReturn(how, exe_path, -1, pre.ran, NoEnv)
                           EXCEPT !.hook_failed = hook_fails]
           /\ UNCHANGED <<os, monitored_processes, state_change_callbacks,
                          monitorVars, sync_wait, executorVars, settingVars,
                          environ, logger,
                          prefixVars>>
       ELSE IF ~pipes.ok THEN
           /\ environ' = env
           /\ logger' = logger
           /\ UNCHANGED prefixVars
           /\ stdout_pipe' = pipes.so
           /\ stderr_pipe' = pipes.se
           /\ open_fds' = pipes.open
           /\ last' = [LaunchReturn(how, exe_path, -1, pre.ran, NoEnv)
                           EXCEPT !.hook_failed = hook_fails,
                                  !.pipe_failed = pipes.failed,
                                  !.bad_close = pipes.bad]
           /\ UNCHANGED <<os, monitored_processes, state_change_callbacks,
                          monitorVars, sync_wait, current_process_pid,
                          execution_active, settingVars>>
       ELSE IF fork_pid = -1 THEN
           /\ environ' = env
           /\ logger' = logger
           /\ UNCHANGED prefixVars
           /\ stdout_pipe' = closed.so
           /\ stderr_pipe' = closed.se
           /\ open_fds' = closed.open
           /\ last' = [LaunchReturn(how, exe_path, -1, pre.ran, NoEnv)
                           EXCEPT !.hook_failed = hook_fails,
                                  !.fork_failed = TRUE,
                                  !.bad_close = closed.bad]
           /\ UNCHANGED <<os, monitored_processes, state_change_callbacks,
                          monitorVars, sync_wait, current_process_pid,
                          execution_active, settingVars>>
       ELSE
           /\ ~MonitorHoldsLock
           /\ environ' = env
           /\ logger' = logger
           /\ UNCHANGED prefixVars
           /\ os' = [os EXCEPT ![fork_pid] =
                        handle_child_process(exec_ok, config, pipes.so, pipes.se)]
           /\ stdout_pipe' = pipes.so
           /\ stderr_pipe' = pipes.se
           /\ open_fds' = pipes.open \ {pipes.so[2], pipes.se[2]}
           /\ current_process_pid' = fork_pid
           /\ execution_active' = TRUE
           /\ monitored_processes' =
                  add_process(monitored_processes, fork_pid,
                      NewProcessInfo(fork_pid, resolved_path, arguments, garbage))
           /\ sync_wait' = IF how = "execute_sync" THEN fork_pid ELSE 0
           /\ last' = [LaunchReturn(how, exe_path, fork_pid, pre.ran,
                                    build_environment_array(env))
                           EXCEPT !.hook_failed = hook_fails,
                                  !.exec_failed = ~exec_ok,
                                  !.bad_close =
                                      NotOpen({pipes.so[2], pipes.se[2]},
                                              pipes.open)]
           /\ UNCHANGED <<state_change_callbacks, monitorVars, settingVars>>

\* what fork can return to a launch of exe_path: the launch calls it only
\* once the path has been validated
ForkResults(exe_path) ==
    IF validate_executable(resolve_path(exe_path)) THEN {-1} \cup FreePids ELSE {-1}

\* what the new ProcessInfo can hold: there is one only after a fork
Garbage(fork_pid) == IF fork_pid = -1 THEN {0} ELSE UninitValues

\* whether execvpe succeeds: it is called only in a forked child
ExecResults(fork_pid) == IF fork_pid = -1 THEN {TRUE} ELSE BOOLEAN

\* a launch during which the system refuses no pipe
Execute ==
    \E how \in LaunchOps, exe_path \in Paths, arguments \in ArgLists :
        \E fork_pid \in ForkResults(exe_path) :
            \E exec_ok \in ExecResults(fork_pid), garbage \in Garbage(fork_pid) :
                execute(how, exe_path, arguments, 0, "none", fork_pid, exec_ok,
                        garbage)

\* the paths that pass validate_executable
ValidPaths == {path \in Paths : validate_executable(resolve_path(path))}

\* a launch of an existing file during which the system refuses no pipe
ExecuteFile ==
    \E how \in LaunchOps, exe_path \in ValidPaths, arguments \in ArgLists :
        \E fork_pid \in ForkResults(exe_path) :
            \E exec_ok \in ExecResults(fork_pid), garbage \in Garbage(fork_pid) :
                execute(how, exe_path, arguments, 0, "none", fork_pid, exec_ok,
                        garbage)

\* a launch of an existing file during which a pre-launch command fails
ExecuteHookFails ==
    \E how \in LaunchOps, exe_path \in ValidPaths, arguments \in ArgLists :
        \E hook_fails \in 1..Len(pre_launch_commands),
           fork_pid \in ForkResults(exe_path) :
            \E exec_ok \in ExecResults(fork_pid), garbage \in Garbage(fork_pid) :
                execute(how, exe_path, arguments, hook_fails, "none", fork_pid,
                        exec_ok, garbage)

\* a launch of an existing file during which the system refuses a pipe:
\* fork is not reached
ExecutePipeRefused ==
    \E how \in LaunchOps, exe_path \in Paths, arguments \in ArgLists :
        \E pipe_fails \in PipeFailures :
            /\ validate_executable(resolve_path(exe_path))
            /\ execute(how, exe_path, arguments, 0, pipe_fails, -1, TRUE, 0)

\* WineExecutor::wait_for_process returning WTERMSIG without the minus sign
wait_for_process_unsigned(e) ==
    IF e.how = "exit" THEN e.n
    ELSE IF e.how = "sig" THEN e.n
    ELSE -1

\* WineExecutor::wait_for_process: the decoded wait status
wait_for_process(e) ==
    IF e.how = "exit" THEN e.n
    ELSE IF e.how = "sig" THEN 0 - e.n
    ELSE -1

\* the rest of WineExecutor::execute_sync once waitpid returns: the child is
\* reaped, the post-launch commands run, the pipes are closed
ExecuteSyncReturn ==
    LET closed == close_pipes(stdout_pipe, stderr_pipe, open_fds) IN
    /\ ~Aborted
    /\ sync_wait # 0
    /\ os[sync_wait].ch = "Z"
    /\ os' = [os EXCEPT ![sync_wait] = NoProcess]
    /\ execution_active' = FALSE
    /\ stdout_pipe' = closed.so
    /\ stderr_pipe' = closed.se
    /\ open_fds' = closed.open
    /\ last' = [Call("execute_sync") EXCEPT
                    !.pid = sync_wait, !.rtype = "int",
                    !.ret = wait_for_process(os[sync_wait]),
                    !.post_hooks = post_launch_commands,
                    !.bad_close = closed.bad]
    /\ sync_wait' = 0
    /\ UNCHANGED <<monitored_processes, state_change_callbacks, monitorVars,
                   current_process_pid, settingVars, environ,
                   logger, prefixVars>>

(***************************************************************************)
(* What the operating system and the children do on their own.             *)
(***************************************************************************)
\* a running child exits
ChildExit ==
    \E p \in Pids, code \in ExitCodes :
        /\ os[p].kind = "child"
        /\ os[p].ch \in LiveChars
        /\ os[p].blocked = "none"
        /\ os' = [os EXCEPT ![p] = Terminated(os[p], "exit", code)]
        /\ last' = Call("none")
        /\ UNCHANGED <<monitored_processes, state_change_callbacks, monitorVars,
                       sync_wait, executorVars, settingVars, environ,
                       logger, prefixVars>>

\* the bytes in the pipe of a captured stream of a process entry
Piped(e, stream) == IF stream = "stdout" THEN e.out ELSE e.err

\* a running child writes a byte to its standard output or error: a stream
\* that is a capture pipe takes it while the pipe's buffer has room
ChildWrite ==
    \E p \in Pids, stream \in Streams, byte \in Bytes :
        /\ os[p].kind = "child"
        /\ os[p].ch \in LiveChars
        /\ os[p].blocked = "none"
        /\ stream \in os[p].capture
        /\ Len(Piped(os[p], stream)) < PipeCapacity
        /\ os' = IF stream = "stdout"
                 THEN [os EXCEPT ![p].out = Append(@, byte)]
                 ELSE [os EXCEPT ![p].err = Append(@, byte)]
        /\ last' = Call("none")
        /\ UNCHANGED <<monitored_processes, state_change_callbacks, monitorVars,
                       sync_wait, executorVars, settingVars, environ,
                       logger, prefixVars>>

\* a running child writes to a capture pipe whose buffer is full: write(2)
\* puts it to sleep until somebody reads from the pipe
ChildWriteBlocks ==
    \E p \in Pids, stream \in Streams :
        /\ os[p].kind = "child"
        /\ os[p].ch \in LiveChars
        /\ os[p].blocked = "none"
        /\ stream \in os[p].capture
        /\ Len(Piped(os[p], stream)) = PipeCapacity
        /\ os' = [os EXCEPT ![p].ch = "S", ![p].blocked = stream]
        /\ last' = Call("none")
        /\ UNCHANGED <<monitored_processes, state_change_callbacks, monitorVars,
                       sync_wait, executorVars, settingVars, environ,
                       logger, prefixVars>>

\* the scheduler moves a live process between running, sleeping, disk wait
Schedule ==
    \E p \in Pids, ch \in LiveChars :
        /\ os[p].kind = "child"
        /\ os[p].ch \in LiveChars
        /\ os[p].blocked = "none"
        /\ os[p].ch # ch
        /\ os' = [os EXCEPT ![p].ch = ch]
        /\ last' = Call("none")
        /\ UNCHANGED <<monitored_processes, state_change_callbacks, monitorVars,
                       sync_wait, executorVars, settingVars, environ,
                       logger, prefixVars>>

\* an unrelated process is given a pid that is free (a pid the table may
\* still hold a record for)
ForeignSpawn ==
    \E p \in Pids :
        /\ os[p].kind = "free"
        /\ os' = [os EXCEPT ![p] =
                     [NoProcess EXCEPT !.kind = "foreign", !.ch = "S"]]
        /\ last' = Call("none")
        /\ UNCHANGED <<monitored_processes, state_change_callbacks, monitorVars,
                       sync_wait, executorVars, settingVars, environ,
                       logger, prefixVars>>

\* an unrelated process exits and is reaped by its parent
ForeignExit ==
    \E p \in Pids :
        /\ os[p].kind = "foreign"
        /\ os' = [os EXCEPT ![p] = NoProcess]
        /\ last' = Call("none")
        /\ UNCHANGED <<monitored_processes, state_change_callbacks, monitorVars,
                       sync_wait, executorVars, settingVars, environ,
                       logger, prefixVars>>

(***************************************************************************)
(* The monitor thread: ProcessMonitor::monitor_loop.  mon_pc is "none" (no *)
(* thread), "loop" (at the loop test, between ticks), "locked" (holding    *)
(* monitor_mutex, iterating), "stats" (holding it, in update_process_stats *)
(* for mon_cur after is_process_alive returned true), "exited".            *)
(***************************************************************************)
\* std::map iterates its keys in ascending order; 0 stands for end()
FirstKey(table) == IF DOMAIN table = {} THEN 0 ELSE Min(DOMAIN table)
NextKey(table, p) ==
    IF {q \in DOMAIN table : q > p} = {} THEN 0
    ELSE Min({q \in DOMAIN table : q > p})

\* ProcessMonitor::notify_state_change: every callback, in list order
notify_state_change(info) ==
    [i \in 1..Len(state_change_callbacks) |->
        [callback |-> state_change_callbacks[i], info |-> info]]

\* ProcessMonitor::calculate_cpu_usage: 0.0 on every path
calculate_cpu_usage(pid) == 0

\* ProcessMonitor::get_memory_usage: VmRSS of /proc/<pid>/status in bytes; 0
\* when the file cannot be opened or has no VmRSS line (a zombie has none)
get_memory_usage(pid) ==
    IF os[pid].kind = "free" \/ os[pid].ch = "Z" THEN 0 ELSE ResidentKb * 1024

\* a switch whose default case reports an unknown character as an error
state_of_char_strict(ch) ==
    CASE ch = "R" -> "RUNNING"
      [] ch = "S" -> "RUNNING"
      [] ch = "T" -> "PAUSED"
      [] ch = "Z" -> "STOPPED"
      [] OTHER -> "ERROR"

\* the switch of ProcessMonitor::get_process_state
state_of_char(ch) ==
    CASE ch = "R" -> "RUNNING"
      [] ch = "S" -> "RUNNING"
      [] ch = "T" -> "PAUSED"
      [] ch = "Z" -> "STOPPED"
      [] OTHER -> "RUNNING"

\* ProcessMonitor::get_process_state; torn: the process went away after
\* /proc/<pid>/stat was opened and before its line was read (no parentheses)
get_process_state(pid, torn) ==
    IF os[pid].kind = "free" THEN "STOPPED"
    ELSE IF torn THEN "ERROR"
    ELSE state_of_char(os[pid].ch)

\* ProcessMonitor::update_process_stats
update_process_stats(info, torn) ==
    [info EXCEPT !.cpu_usage = calculate_cpu_usage(info.pid),
                 !.memory_usage = get_memory_usage(info.pid),
                 !.state = get_process_state(info.pid, torn)]

\* a tick that can take the lock only when no synchronous launch waits
MonitorTickBeginAfterWait ==
    /\ sync_wait = 0
    /\ mon_pc = "loop"
    /\ monitoring_active
    /\ clock < MaxClock
    /\ mon_pc' = "locked"
    /\ mon_cur' = FirstKey(monitored_processes)
    /\ last' = Call("none")
    /\ UNCHANGED <<os, monitored_processes, state_change_callbacks,
                   monitoring_active, notifications, clock, sync_wait,
                   executorVars, settingVars, environ,
                   logger, prefixVars>>

\* while (monitoring_active) { lock_guard ... : a tick starts
MonitorTickBegin ==
    /\ mon_pc = "loop"
    /\ monitoring_active
    /\ clock < MaxClock
    /\ mon_pc' = "locked"
    /\ mon_cur' = FirstKey(monitored_processes)
    /\ last' = Call("none")
    /\ UNCHANGED <<os, monitored_processes, state_change_callbacks,
                   monitoring_active, notifications, clock, sync_wait,
                   executorVars, settingVars, environ,
                   logger, prefixVars>>

\* one turn of the for loop, up to and including is_process_alive's branch
MonitorVisit ==
    /\ mon_pc = "locked"
    /\ mon_cur # 0
    /\ IF ~is_process_alive(mon_cur) THEN
           LET dead == [monitored_processes[mon_cur] EXCEPT
                            !.state = "STOPPED", !.end_time = clock]
           IN  /\ monitored_processes' =
                      [monitored_processes EXCEPT ![mon_cur] = dead]
               /\ notifications' = notifications \o notify_state_change(dead)
               /\ mon_cur' = NextKey(monitored_processes, mon_cur)
               /\ mon_pc' = "locked"
       ELSE
           /\ mon_pc' = "stats"
           /\ UNCHANGED <<monitored_processes, notifications, mon_cur>>
    /\ last' = Call("none")
    /\ UNCHANGED <<os, state_change_callbacks, monitoring_active, clock,
                   sync_wait, executorVars, settingVars, environ,
                   logger, prefixVars>>

\* the turn of the for loop for a dead process in which the thrower-th
\* callback throws: notify_state_change has no handler and neither has
\* monitor_loop, so the callbacks after it are not called and the exception
\* leaves the thread function
MonitorVisitThrow ==
    \E thrower \in 1..Len(state_change_callbacks) :
        LET dead == [monitored_processes[mon_cur] EXCEPT
                         !.state = "STOPPED", !.end_time = clock]
        IN  /\ mon_pc = "locked"
            /\ mon_cur # 0
            /\ ~is_process_alive(mon_cur)
            /\ monitored_processes' =
                   [monitored_processes EXCEPT ![mon_cur] = dead]
            /\ notifications' =
                   notifications \o SubSeq(notify_state_change(dead), 1, thrower)
            /\ mon_pc' = "aborted"
            /\ last' = Call("none")
            /\ UNCHANGED <<os, state_change_callbacks, monitoring_active,
                           mon_cur, clock, sync_wait, executorVars, settingVars,
                           environ, logger,
                           prefixVars>>

\* update_process_stats(pair.second) for a process found alive
MonitorStats ==
    \E torn \in BOOLEAN :
        /\ mon_pc = "stats"
        /\ torn => os[mon_cur].kind = "foreign"
        /\ monitored_processes' =
               [monitored_processes EXCEPT
                    ![mon_cur] = update_process_stats(@, torn)]
        /\ os' = IF torn THEN [os EXCEPT ![mon_cur] = NoProcess] ELSE os
        /\ mon_cur' = NextKey(monitored_processes, mon_cur)
        /\ mon_pc' = "locked"
        /\ last' = Call("none")
        /\ UNCHANGED <<state_change_callbacks, monitoring_active, notifications,
                       clock, sync_wait, executorVars, settingVars, environ,
                       logger, prefixVars>>

\* the lock is released and the thread sleeps for update_interval
MonitorTickEnd ==
    /\ mon_pc = "locked"
    /\ mon_cur = 0
    /\ mon_pc' = "loop"
    /\ clock' = clock + 1
    /\ last' = Call("none")
    /\ UNCHANGED <<os, monitored_processes, state_change_callbacks,
                   monitoring_active, mon_cur, notifications, sync_wait,
                   executorVars, settingVars, environ,
                   logger, prefixVars>>

\* the loop test fails: the thread function returns
MonitorExit ==
    /\ mon_pc = "loop"
    /\ ~monitoring_active
    /\ mon_pc' = "exited"
    /\ last' = Call("none")
    /\ UNCHANGED <<os, monitored_processes, state_change_callbacks,
                   monitoring_active, mon_cur, notifications, clock, sync_wait,
                   executorVars, settingVars, environ,
                   logger, prefixVars>>

\* ProcessMonitor::start_monitoring, called while no stop_monitoring is
\* waiting in join
StartMonitoring ==
    /\ ~Aborted
    /\ monitoring_active \/ mon_pc = "none"
    /\ IF monitoring_active
       THEN UNCHANGED <<monitoring_active, mon_pc>>
       ELSE monitoring_active' = TRUE /\ mon_pc' = "loop"
    /\ last' = Call("start_monitoring")
    /\ UNCHANGED <<os, monitored_processes, state_change_callbacks, mon_cur,
                   notifications, clock, sync_wait, executorVars, settingVars,
                   environ, logger,
                   prefixVars>>

\* ProcessMonitor::start_monitoring called after a stop_monitoring has
\* cleared monitoring_active and before its join has returned: the flag test
\* passes, a second thread is constructed, and its move assignment to
\* monitor_thread, which is still joinable, calls std::terminate
StartMonitoringUnjoined ==
    /\ ~Aborted
    /\ ~monitoring_active
    /\ mon_pc \in {"loop", "locked", "stats", "exited"}
    /\ monitoring_active' = TRUE
    /\ mon_pc' = "aborted"
    /\ last' = Call("start_monitoring")
    /\ UNCHANGED <<os, monitored_processes, state_change_callbacks, mon_cur,
                   notifications, clock, sync_wait, executorVars, settingVars,
                   environ, logger,
                   prefixVars>>

\* ProcessMonitor::stop_monitoring up to the join
StopMonitoringBegin ==
    /\ ~Aborted
    /\ monitoring_active
    /\ monitoring_active' = FALSE
    /\ last' = [Call("stop_monitoring") EXCEPT !.rtype = "blocked"]
    /\ UNCHANGED <<os, monitored_processes, state_change_callbacks, mon_pc,
                   mon_cur, notifications, clock, sync_wait, executorVars,
                   settingVars, environ,
                   logger, prefixVars>>

\* monitor_thread.join() returns, and stop_monitoring with it
StopMonitoringReturn ==
    /\ ~monitoring_active
    /\ mon_pc = "exited"
    /\ mon_pc' = "none"
    /\ last' = Call("stop_monitoring")
    /\ UNCHANGED <<os, monitored_processes, state_change_callbacks,
                   monitoring_active, mon_cur, notifications, clock, sync_wait,
                   executorVars, settingVars, environ,
                   logger, prefixVars>>

\* ProcessMonitor::stop_monitoring when monitoring is not active: it returns
StopMonitoringIdle ==
    /\ ~Aborted
    /\ ~monitoring_active
    /\ last' = Call("stop_monitoring")
    /\ UNCHANGED <<os, monitored_processes, state_change_callbacks,
                   monitorVars, sync_wait, executorVars, settingVars, environ,
                   logger, prefixVars>>

(***************************************************************************)
(* The signal operations.  None of them takes monitor_mutex or reads the   *)
(* table (kill_all_processes reads it once, through get_all_processes).    *)
(***************************************************************************)
Signal(pid, sig) == [pid |-> pid, sig |-> sig, rc |-> kill_rc(pid, sig)]

\* kill(pid, signal) followed by marking the record of a pid that took the
\* signal as KILLED
send_signal_and_mark(op, pid, sig, obeys) ==
    /\ ~Aborted
    /\ os' = [os EXCEPT ![pid] = kill_effect(@, sig, obeys)]
    /\ monitored_processes' =
           IF pid \in DOMAIN monitored_processes /\ kill_rc(pid, sig) = 0
           THEN [monitored_processes EXCEPT ![pid].state = "KILLED"]
           ELSE monitored_processes
    /\ last' = [Call(op) EXCEPT !.pid = pid, !.sent = <<Signal(pid, sig)>>]
    /\ UNCHANGED <<state_change_callbacks, monitorVars, sync_wait,
                   executorVars, settingVars, environ,
                   logger, prefixVars>>

\* the body shared by pause_process, resume_process and kill_process:
\* kill(pid, signal), then a log line that depends on its result
send_signal(op, pid, sig, obeys) ==
    /\ ~Aborted
    /\ os' = [os EXCEPT ![pid] = kill_effect(@, sig, obeys)]
    /\ last' = [Call(op) EXCEPT !.pid = pid, !.sent = <<Signal(pid, sig)>>]
    /\ UNCHANGED <<monitored_processes, state_change_callbacks, monitorVars,
                   sync_wait, executorVars, settingVars, environ,
                   logger, prefixVars>>

\* ProcessMonitor::pause_process
pause_process(pid) == send_signal("pause_process", pid, SIGSTOP, TRUE)

\* ProcessMonitor::resume_process
resume_process(pid) == send_signal("resume_process", pid, SIGCONT, TRUE)

\* ProcessMonitor::kill_process
kill_process(pid, signal, obeys) == send_signal("kill_process", pid, signal, obeys)

\* WineApplicationManager::terminate_process
terminate_process(pid, obeys) == send_signal("terminate_process", pid, SIGTERM, obeys)

PauseProcess == \E pid \in Pids : pause_process(pid)
ResumeProcess == \E pid \in Pids : resume_process(pid)
KillProcess ==
    \E pid \in Pids, signal \in {SIGTERM, SIGKILL}, obeys \in BOOLEAN :
        kill_process(pid, signal, obeys)
TerminateProcess == \E pid \in Pids, obeys \in BOOLEAN : terminate_process(pid, obeys)

RECURSIVE Ascending(_)
\* the elements of a set of numbers in ascending order
Ascending(S) == IF S = {} THEN <<>> ELSE <<Min(S)>> \o Ascending(S \ {Min(S)})

\* ProcessMonitor::get_all_processes: copies, in key order
get_all_processes(table) ==
    LET keys == Ascending(DOMAIN table)
    IN  [i \in 1..Len(keys) |-> table[keys[i]]]

\* WineApplicationManager::kill_all_processes: SIGKILL to the pid of every
\* record get_all_processes returned
KillAllProcesses ==
    LET processes == get_all_processes(monitored_processes) IN
    /\ ~Aborted
    /\ ~MonitorHoldsLock
    /\ os' = [p \in Pids |->
                 IF p \in DOMAIN monitored_processes
                 THEN kill_effect(os[p], SIGKILL, TRUE) ELSE os[p]]
    /\ last' = [Call("kill_all_processes") EXCEPT
                    !.sent = [i \in 1..Len(processes) |->
                                 Signal(processes[i].pid, SIGKILL)]]
    /\ UNCHANGED <<monitored_processes, state_change_callbacks, monitorVars,
                   sync_wait, executorVars, settingVars, environ,
                   logger, prefixVars>>

\* WineExecutor::terminate_current_process
TerminateCurrentProcess ==
    \E obeys \in BOOLEAN :
        /\ ~Aborted
        /\ IF current_process_pid > 0
           THEN /\ os' = [os EXCEPT ![current_process_pid] =
                              kill_effect(@, SIGTERM, obeys)]
                /\ last' = [Call("terminate_current_process") EXCEPT
                                !.sent = <<Signal(current_process_pid, SIGTERM)>>]
           ELSE /\ os' = os
                /\ last' = Call("terminate_current_process")
        /\ UNCHANGED <<monitored_processes, state_change_callbacks, monitorVars,
                       sync_wait, executorVars, settingVars, environ,
                       logger, prefixVars>>

(***************************************************************************)
(* Table queries and maintenance; each holds monitor_mutex for its body.   *)
(***************************************************************************)
\* ProcessMonitor::get_process_info
get_process_info(table, pid) ==
    IF pid \in DOMAIN table THEN table[pid] ELSE DefaultInfo

\* ProcessMonitor::remove_process
RemoveProcess ==
    \E pid \in Pids :
        /\ ~Aborted
        /\ ~MonitorHoldsLock
        /\ monitored_processes' =
               [q \in DOMAIN monitored_processes \ {pid} |-> monitored_processes[q]]
        /\ last' = [Call("remove_process") EXCEPT !.pid = pid]
        /\ UNCHANGED <<os, state_change_callbacks, monitorVars, sync_wait,
                       executorVars, settingVars, environ,
                       logger, prefixVars>>

\* ProcessMonitor::register_callback
RegisterCallback ==
    \E cb \in {Len(state_change_callbacks) + 1} :
        /\ ~Aborted
        /\ ~MonitorHoldsLock
        /\ Len(state_change_callbacks) < MaxCallbacks
        /\ state_change_callbacks' = Append(state_change_callbacks, cb)
        /\ last' = Call("register_callback")
        /\ UNCHANGED <<os, monitored_processes, monitorVars, sync_wait,
                       executorVars, settingVars, environ,
                       logger, prefixVars>>

\* ProcessMonitor::clear_callbacks
ClearCallbacks ==
    /\ ~Aborted
    /\ ~MonitorHoldsLock
    /\ state_change_callbacks' = <<>>
    /\ last' = Call("clear_callbacks")
    /\ UNCHANGED <<os, monitored_processes, monitorVars, sync_wait,
                   executorVars, settingVars, environ,
                   logger, prefixVars>>

(***************************************************************************)
(* Settings: the configuration, the user's environment overrides and the   *)
(* hook lists.                                                             *)
(***************************************************************************)
EmptyMap == [k \in {} |-> ""]

\* WineConfiguration::WineConfiguration, the fields a launch reads
DefaultConfig ==
    [wine_prefix |-> "/h/.wine", architecture |-> "AUTO_DETECT",
     enable_virtual_desktop |-> FALSE, virtual_desktop_resolution |-> "",
     enable_csmt |-> TRUE, enable_dxvk |-> FALSE, enable_esync |-> TRUE,
     enable_fsync |-> FALSE, audio_driver |-> "alsa",
     graphics_driver |-> "x11", dll_overrides |-> <<>>,
     environment_variables |-> EmptyMap,
     capture_stdout |-> TRUE, capture_stderr |-> TRUE]

UserKeys == {"WINEDLLOVERRIDES", "WINE_AUDIO_DRIVER", "WINEPREFIX", "DISPLAY",
             "MYVAR"}

\* the maps with at most MaxUserVars of the keys, each bound to value
UserMaps(value) ==
    {[k \in K |-> value] : K \in {K \in SUBSET UserKeys : Cardinality(K) <= MaxUserVars}}

ConfigFields == DOMAIN DefaultConfig

\* the configurations a caller passes to set_configuration: those that
\* differ from the default in at most MaxChanged fields
Configs ==
    {cfg \in [wine_prefix : {"/h/.wine", "/p"},
              architecture : {"WIN32", "WIN64", "AUTO_DETECT"},
              enable_virtual_desktop : BOOLEAN,
              virtual_desktop_resolution : {"", "800x600"},
              enable_csmt : BOOLEAN, enable_dxvk : BOOLEAN,
              enable_esync : BOOLEAN, enable_fsync : BOOLEAN,
              audio_driver : {"", "alsa", "pulse", "oss", "jack"},
              graphics_driver : {"", "x11", "wayland"},
              dll_overrides : {<<>>, <<"d3d11=n">>, <<"a=n", "b=b">>},
              environment_variables : UserMaps("cfg"),
              capture_stdout : BOOLEAN, capture_stderr : BOOLEAN] :
        Cardinality({f \in ConfigFields : cfg[f] # DefaultConfig[f]}) <= MaxChanged}

\* WineExecutor::set_configuration (through set_wine_configuration, which
\* takes manager_mutex)
SetConfiguration ==
    \E cfg \in Configs :
        /\ ~Aborted
        /\ sync_wait = 0
        /\ config' = cfg
        /\ last' = Call("set_configuration")
        /\ UNCHANGED <<os, monitored_processes, state_change_callbacks,
                       monitorVars, sync_wait, executorVars, custom_environment,
                       pre_launch_commands, post_launch_commands, environ,
                       logger, prefixVars>>

\* WineExecutor::add_environment_variable
AddEnvironmentVariable ==
    \E key \in UserKeys :
        /\ ~Aborted
        /\ Cardinality(DOMAIN custom_environment \cup {key}) <= MaxUserVars
        /\ custom_environment' =
               [k \in DOMAIN custom_environment \cup {key} |->
                   IF k = key THEN "user" ELSE custom_environment[k]]
        /\ last' = Call("add_environment_variable")
        /\ UNCHANGED <<os, monitored_processes, state_change_callbacks,
                       monitorVars, sync_wait, executorVars, config,
                       pre_launch_commands, post_launch_commands, environ,
                       logger, prefixVars>>

\* WineExecutor::remove_environment_variable
RemoveEnvironmentVariable ==
    \E key \in UserKeys :
        /\ ~Aborted
        /\ custom_environment' =
               [k \in DOMAIN custom_environment \ {key} |-> custom_environment[k]]
        /\ last' = Call("remove_environment_variable")
        /\ UNCHANGED <<os, monitored_processes, state_change_callbacks,
                       monitorVars, sync_wait, executorVars, config,
                       pre_launch_commands, post_launch_commands, environ,
                       logger, prefixVars>>

\* WineExecutor::clear_environment_variables
ClearEnvironmentVariables ==
    /\ ~Aborted
    /\ custom_environment' = EmptyMap
    /\ last' = Call("clear_environment_variables")
    /\ UNCHANGED <<os, monitored_processes, state_change_callbacks, monitorVars,
                   sync_wait, executorVars, config, pre_launch_commands,
                   post_launch_commands, environ,
                   logger, prefixVars>>

HookCommands == {"hook1", "hook2"}

\* WineExecutor::add_pre_launch_command
AddPreLaunchCommand ==
    \E command \in HookCommands :
        /\ ~Aborted
        /\ Len(pre_launch_commands) < MaxHooks
        /\ pre_launch_commands' = Append(pre_launch_commands, command)
        /\ last' = Call("add_pre_launch_command")
        /\ UNCHANGED <<os, monitored_processes, state_change_callbacks,
                       monitorVars, sync_wait, executorVars, config,
                       custom_environment, post_launch_commands, environ,
                       logger, prefixVars>>

\* WineExecutor::add_post_launch_command
AddPostLaunchCommand ==
    \E command \in HookCommands :
        /\ ~Aborted
        /\ Len(post_launch_commands) < MaxHooks
        /\ post_launch_commands' = Append(post_launch_commands, command)
        /\ last' = Call("add_post_launch_command")
        /\ UNCHANGED <<os, monitored_processes, state_change_callbacks,
                       monitorVars, sync_wait, executorVars, config,
                       custom_environment, pre_launch_commands, environ,
                       logger, prefixVars>>

\* WineExecutor::clear_pre_launch_commands
ClearPreLaunchCommands ==
    /\ ~Aborted
    /\ pre_launch_commands' = <<>>
    /\ last' = Call("clear_pre_launch_commands")
    /\ UNCHANGED <<os, monitored_processes, state_change_callbacks, monitorVars,
                   sync_wait, executorVars, config, custom_environment,
                   post_launch_commands, environ,
                   logger, prefixVars>>

\* WineExecutor::clear_post_launch_commands
ClearPostLaunchCommands ==
    /\ ~Aborted
    /\ post_launch_commands' = <<>>
    /\ last' = Call("clear_post_launch_commands")
    /\ UNCHANGED <<os, monitored_processes, state_change_callbacks, monitorVars,
                   sync_wait, executorVars, config, custom_environment,
                   pre_launch_commands, environ,
                   logger, prefixVars>>

(***************************************************************************)
(* The state after the constructors of WineApplicationManager's members.   *)
(***************************************************************************)
\* the environment the supervisor inherited: a desktop session with DISPLAY
InheritedEnv == [NoEnv EXCEPT !["DISPLAY"] = ":1"]

\* everything but the settings and the environment
Constructed ==
    /\ os = [p \in Pids |-> NoProcess]
    /\ monitored_processes = [p \in {} |-> DefaultInfo]
    /\ state_change_callbacks = <<>>
    /\ monitoring_active = FALSE
    /\ mon_pc = "none"
    /\ mon_cur = 0
    /\ notifications = <<>>
    /\ clock = 1
    /\ sync_wait = 0
    /\ current_process_pid = -1
    /\ execution_active = FALSE
    /\ pre_launch_commands = <<>>
    /\ post_launch_commands = <<>>
    /\ stdout_pipe = NoPipe
    /\ stderr_pipe = NoPipe
    /\ open_fds = {}
    /\ logger = NewLogger
    /\ prefix_configs = LoadedPrefixes
    /\ prefix_files = FoundFiles
    /\ last = Call("none")

Init ==
    /\ Constructed
    /\ config = DefaultConfig
    /\ custom_environment = EmptyMap
    /\ environ = InheritedEnv

\* the settings a caller has made before the launches: any configuration, any
\* user overrides, with or without an inherited DISPLAY
InitEnv ==
    /\ Constructed
    /\ config \in Configs
    /\ custom_environment \in UserMaps("user")
    /\ environ \in {InheritedEnv, NoEnv}

(***************************************************************************)
(* Spec: the supervisor under the default settings: launches, the monitor  *)
(* thread, the signal operations, observers and the operating system.      *)
(***************************************************************************)
Next ==
    \/ Execute
    \/ ExecuteSyncReturn
    \/ ChildExit
    \/ ForeignSpawn
    \/ ForeignExit
    \/ StartMonitoring
    \/ MonitorTickBegin
    \/ MonitorVisit
    \/ MonitorStats
    \/ MonitorTickEnd
    \/ PauseProcess
    \/ ResumeProcess
    \/ KillProcess
    \/ TerminateProcess
    \/ KillAllProcesses
    \/ TerminateCurrentProcess
    \/ RegisterCallback

Spec == Init /\ [][Next]_vars

(***************************************************************************)
(* SpecLaunch: launches with pre- and post-launch commands registered.     *)
(***************************************************************************)
NextLaunch ==
    \/ Execute
    \/ ExecuteSyncReturn
    \/ ChildExit
    \/ AddPreLaunchCommand
    \/ AddPostLaunchCommand
    \/ ClearPreLaunchCommands
    \/ ClearPostLaunchCommands

SpecLaunch == Init /\ [][NextLaunch]_vars

(***************************************************************************)
(* SpecEnv: launches under every configuration and every set of user       *)
(* overrides.                                                              *)
(***************************************************************************)
NextEnv ==
    \/ Execute
    \/ ExecuteSyncReturn
    \/ ChildExit

SpecEnv == InitEnv /\ [][NextEnv]_vars

(***************************************************************************)
(* SpecControl: the monitor thread started and stopped while processes run *)
(* and records are removed.                                                *)
(***************************************************************************)
\* launches and the pre-launch commands
NextPreLaunch ==
    \/ Execute
    \/ ExecuteSyncReturn
    \/ ChildExit
    \/ AddPreLaunchCommand
    \/ ClearPreLaunchCommands

SpecPreLaunch == Init /\ [][NextPreLaunch]_vars

\* launches of existing files with pre-launch commands that may fail, up to
\* the end of the first child
NextHooks ==
    \/ ExecuteFile
    \/ ExecuteHookFails
    \/ AddPreLaunchCommand
    \/ ClearPreLaunchCommands

SpecHooks == Init /\ [][NextHooks]_vars

\* launches of existing files, the monitor's ticks, kill and terminate
NextSignals ==
    \/ ExecuteFile
    \/ StartMonitoring
    \/ MonitorTickBegin
    \/ MonitorVisit
    \/ MonitorStats
    \/ MonitorTickEnd
    \/ KillProcess
    \/ TerminateProcess

SpecSignals == Init /\ [][NextSignals]_vars

\* launches, the scheduler, the stop signal and the monitor's ticks
NextStates ==
    \/ ExecuteFile
    \/ Schedule
    \/ PauseProcess
    \/ StartMonitoring
    \/ MonitorTickBegin
    \/ MonitorVisit
    \/ MonitorStats
    \/ MonitorTickEnd

SpecStates == Init /\ [][NextStates]_vars

\* launches, the children's output and exits, and the monitor's ticks
NextCapture ==
    \/ ExecuteFile
    \/ ExecuteSyncReturn
    \/ ChildWrite
    \/ ChildWriteBlocks
    \/ ChildExit
    \/ StartMonitoring
    \/ MonitorTickBegin
    \/ MonitorVisit
    \/ MonitorStats
    \/ MonitorTickEnd

SpecCapture == Init /\ [][NextCapture]_vars

(***************************************************************************)
(* The Logger's operations and its worker thread.  The worker holds        *)
(* log_mutex from the moment wait_for returns to the end of that turn of   *)
(* its loop, and not while it tests stop_logging.                          *)
(***************************************************************************)
\* Logger::log of a message at or above min_level
Log ==
    LET message == logger.logged + 1 IN
    /\ logger.caller # "destroyed"
    /\ logger.logged < MaxMessages
    /\ logger' =
           IF logger.async_logging
           THEN IF Len(logger.log_buffer) < max_buffer_size
                THEN [logger EXCEPT !.logged = message,
                                    !.log_buffer = Append(@, message),
                                    !.accepted = Append(@, message)]
                ELSE [logger EXCEPT !.logged = message]
           ELSE [logger EXCEPT !.logged = message,
                               !.written = Append(@, message)]
    /\ last' = Call("log")
    /\ UNCHANGED <<os, monitored_processes, state_change_callbacks, monitorVars,
                   sync_wait, executorVars, settingVars, environ,
                   prefixVars>>

\* Logger::enable_async_logging(true)
EnableAsyncLogging ==
    /\ logger.caller = "none"
    /\ logger' = IF ~logger.async_logging
                 THEN [logger EXCEPT !.async_logging = TRUE,
                                     !.stop_logging = FALSE,
                                     !.worker_pc = "test"]
                 ELSE logger
    /\ last' = Call("enable_async_logging")
    /\ UNCHANGED <<os, monitored_processes, state_change_callbacks, monitorVars,
                   sync_wait, executorVars, settingVars, environ,
                   prefixVars>>

\* Logger::enable_async_logging(false) up to the join
DisableAsyncLoggingBegin ==
    /\ logger.caller = "none"
    /\ logger' = IF logger.async_logging
                 THEN [logger EXCEPT !.stop_logging = TRUE,
                                     !.caller = "disable"]
                 ELSE logger
    /\ last' = [Call("enable_async_logging") EXCEPT
                    !.rtype = IF logger.async_logging THEN "blocked" ELSE "void"]
    /\ UNCHANGED <<os, monitored_processes, state_change_callbacks, monitorVars,
                   sync_wait, executorVars, settingVars, environ,
                   prefixVars>>

\* logging_thread.join() returns in enable_async_logging(false)
DisableAsyncLoggingReturn ==
    /\ logger.caller = "disable"
    /\ logger.worker_pc = "exited"
    /\ logger' = [logger EXCEPT !.async_logging = FALSE, !.worker_pc = "none",
                                !.caller = "none"]
    /\ last' = Call("enable_async_logging")
    /\ UNCHANGED <<os, monitored_processes, state_change_callbacks, monitorVars,
                   sync_wait, executorVars, settingVars, environ,
                   prefixVars>>

\* Logger::~Logger up to the join, or to its end when there is no thread
LoggerDestroyBegin ==
    /\ logger.caller = "none"
    /\ logger' = [logger EXCEPT
                      !.stop_logging = TRUE,
                      !.caller = IF logger.async_logging THEN "destroy"
                                 ELSE "destroyed"]
    /\ last' = Call("~Logger")
    /\ UNCHANGED <<os, monitored_processes, state_change_callbacks, monitorVars,
                   sync_wait, executorVars, settingVars, environ,
                   prefixVars>>

\* logging_thread.join() returns in ~Logger; flush() writes no message
LoggerDestroyReturn ==
    /\ logger.caller = "destroy"
    /\ logger.worker_pc = "exited"
    /\ logger' = [logger EXCEPT !.worker_pc = "none", !.caller = "destroyed"]
    /\ last' = Call("~Logger")
    /\ UNCHANGED <<os, monitored_processes, state_change_callbacks, monitorVars,
                   sync_wait, executorVars, settingVars, environ,
                   prefixVars>>

\* Logger::async_log_worker: the test of while (!stop_logging)
LogWorkerTest ==
    /\ logger.worker_pc = "test"
    /\ logger' = [logger EXCEPT
                      !.worker_pc = IF logger.stop_logging THEN "exited"
                                    ELSE "wait"]
    /\ last' = Call("none")
    /\ UNCHANGED <<os, monitored_processes, state_change_callbacks, monitorVars,
                   sync_wait, executorVars, settingVars, environ,
                   prefixVars>>

\* Logger::async_log_worker: wait_for returns (a message, stop_logging or
\* the 100 ms timeout) and the buffer is written out in queue order
LogWorkerDrain ==
    /\ logger.worker_pc = "wait"
    /\ logger' = [logger EXCEPT !.written = @ \o logger.log_buffer,
                                !.log_buffer = <<>>,
                                !.worker_pc = "test"]
    /\ last' = Call("none")
    /\ UNCHANGED <<os, monitored_processes, state_change_callbacks, monitorVars,
                   sync_wait, executorVars, settingVars, environ,
                   prefixVars>>

NextLogger ==
    \/ Log
    \/ EnableAsyncLogging
    \/ DisableAsyncLoggingBegin
    \/ DisableAsyncLoggingReturn
    \/ LoggerDestroyBegin
    \/ LoggerDestroyReturn
    \/ LogWorkerTest
    \/ LogWorkerDrain

SpecLogger == Init /\ [][NextLogger]_vars

(***************************************************************************)
(* The prefix manager's operations; each holds prefix_mutex for its body.  *)
(***************************************************************************)
\* WinePrefixManager::create_prefix
CreatePrefix ==
    \E prefix_name \in PrefixNames, mkdir_ok \in BOOLEAN, wineboot_ok \in BOOLEAN :
        LET made == create_directory(prefix_files, PrefixPath(prefix_name), mkdir_ok)
            reg == initialize_registry(made.files, prefix_name, wineboot_ok)
            ret(ok) == [Call("create_prefix") EXCEPT
                            !.path = prefix_name, !.rtype = "bool",
                            !.ret = IF ok THEN 1 ELSE 0]
        IN
        /\ IF prefix_name \in DOMAIN prefix_configs THEN
               /\ last' = ret(FALSE)
               /\ UNCHANGED prefixVars
           ELSE IF ~made.ok THEN
               /\ last' = ret(FALSE)
               /\ UNCHANGED prefixVars
           ELSE IF ~reg.ok THEN
               /\ prefix_files' = reg.files
               /\ last' = ret(FALSE)
               /\ UNCHANGED prefix_configs
           ELSE
               /\ prefix_files' = reg.files
               /\ prefix_configs' =
                      [n \in DOMAIN prefix_configs \cup {prefix_name} |->
                          IF n = prefix_name THEN PrefixPath(prefix_name)
                          ELSE prefix_configs[n]]
               /\ last' = ret(TRUE)
        /\ UNCHANGED <<os, monitored_processes, state_change_callbacks, monitorVars,
                       sync_wait, executorVars, settingVars, environ, logger>>

\* WinePrefixManager::delete_prefix; rm -rf removes the directory
DeletePrefix ==
    \E prefix_name \in PrefixNames :
        /\ IF prefix_name \notin DOMAIN prefix_configs THEN
               /\ last' = [Call("delete_prefix") EXCEPT
                               !.path = prefix_name, !.rtype = "bool", !.ret = 0]
               /\ UNCHANGED prefixVars
           ELSE
               /\ prefix_files' =
                      [prefix_files EXCEPT ![PrefixPath(prefix_name)] = "none",
                                           ![RegistryPath(prefix_name)] = "none"]
               /\ prefix_configs' =
                      [n \in DOMAIN prefix_configs \ {prefix_name} |->
                          prefix_configs[n]]
               /\ last' = [Call("delete_prefix") EXCEPT
                               !.path = prefix_name, !.rtype = "bool", !.ret = 1]
        /\ UNCHANGED <<os, monitored_processes, state_change_callbacks, monitorVars,
                       sync_wait, executorVars, settingVars, environ, logger>>

\* the prefix manager next to launches of the executor
NextPrefix ==
    \/ CreatePrefix
    \/ DeletePrefix
    \/ ExecuteFile
    \/ ExecuteSyncReturn

SpecPrefix == Init /\ [][NextPrefix]_vars

\* launches and the post-launch commands
NextPostLaunch ==
    \/ Execute
    \/ ExecuteSyncReturn
    \/ ChildExit
    \/ AddPostLaunchCommand
    \/ ClearPostLaunchCommands

SpecPostLaunch == Init /\ [][NextPostLaunch]_vars

\* launches with and without a refused pipe
NextPipes ==
    \/ Execute
    \/ ExecutePipeRefused
    \/ ExecuteSyncReturn
    \/ ChildExit

SpecPipes == Init /\ [][NextPipes]_vars

\* launches of existing files, the monitor's ticks and removals
NextTable ==
    \/ ExecuteFile
    \/ ExecuteSyncReturn
    \/ ChildExit
    \/ StartMonitoring
    \/ MonitorTickBegin
    \/ MonitorVisit
    \/ MonitorStats
    \/ MonitorTickEnd
    \/ RemoveProcess

SpecTable == Init /\ [][NextTable]_vars

\* launches of existing files and the monitor's ticks; the monitor thread
\* is scheduled: a step of its loop that stays possible is taken
NextLive ==
    \/ ExecuteFile
    \/ ExecuteSyncReturn
    \/ ChildExit
    \/ StartMonitoring
    \/ MonitorTickBegin
    \/ MonitorVisit
    \/ MonitorStats
    \/ MonitorTickEnd

SpecLive ==
    /\ Init
    /\ [][NextLive]_vars
    /\ WF_vars(MonitorTickBegin)
    /\ WF_vars(MonitorVisit)
    /\ WF_vars(MonitorStats)
    /\ WF_vars(MonitorTickEnd)

\* launches, children that exit and children that are signalled
NextSync ==
    \/ Execute
    \/ ExecuteSyncReturn
    \/ ChildExit
    \/ KillProcess
    \/ TerminateCurrentProcess

SpecSync == Init /\ [][NextSync]_vars

\* launches and the monitor with observers that may throw
NextObservers ==
    \/ Execute
    \/ ExecuteSyncReturn
    \/ ChildExit
    \/ StartMonitoring
    \/ RegisterCallback
    \/ ClearCallbacks
    \/ MonitorTickBegin
    \/ MonitorVisit
    \/ MonitorVisitThrow
    \/ MonitorStats
    \/ MonitorTickEnd

SpecObservers == Init /\ [][NextObservers]_vars

NextControl ==
    \/ Execute
    \/ ExecuteSyncReturn
    \/ ChildExit
    \/ Schedule
    \/ StartMonitoring
    \/ StartMonitoringUnjoined
    \/ StopMonitoringBegin
    \/ StopMonitoringReturn
    \/ StopMonitoringIdle
    \/ MonitorTickBegin
    \/ MonitorVisit
    \/ MonitorStats
    \/ MonitorTickEnd
    \/ MonitorExit
    \/ RemoveProcess

SpecControl == Init /\ [][NextControl]_vars

(***************************************************************************)
(* SpecSettings: launches while the user's environment overrides change.   *)
(***************************************************************************)
NextSettings ==
    \/ Execute
    \/ ExecuteSyncReturn
    \/ ChildExit
    \/ AddEnvironmentVariable
    \/ RemoveEnvironmentVariable
    \/ ClearEnvironmentVariables

SpecSettings == Init /\ [][NextSettings]_vars

(***************************************************************************)
(* The claims.                                                             *)
(***************************************************************************)
SignalOps == {"pause_process", "resume_process", "kill_process",
              "terminate_process"}
AsyncLaunchOps == {"execute", "execute_async"}
Terminal == {"STOPPED", "ERROR", "KILLED"}

\* the notifications callback cb has received for the process that was
\* launched under pid p at time s
Received(cb, p, s) ==
    {i \in DOMAIN notifications :
        /\ notifications[i].callback = cb
        /\ notifications[i].info.pid = p
        /\ notifications[i].info.start_time = s}

\* the step appended a notification about pid p
NotifiedInStep(p) ==
    \E i \in (Len(notifications) + 1)..Len(notifications') :
        notifications'[i].info.pid = p

\* C1: when an asynchronous launch (execute, execute_async) has just
\* returned a pid, a query of the table (get_process_info, get_all_processes)
\* reports that pid with state RUNNING; the record is not left in STARTING.
C1_LaunchedRecordReportsRunning ==
    (last.op \in AsyncLaunchOps /\ last.forked) =>
        /\ get_process_info(monitored_processes, last.pid).state = "RUNNING"
        /\ \E i \in DOMAIN get_all_processes(monitored_processes) :
               /\ get_all_processes(monitored_processes)[i].pid = last.pid
               /\ get_all_processes(monitored_processes)[i].state = "RUNNING"

\* C2: when pause_process (resume_process) on a tracked live child has just
\* returned after its signal was delivered, a query reports the record PAUSED
\* (RUNNING): the operation updated the state itself.
C2_PauseResumeSynchronous ==
    \A p \in Pids :
        ( /\ last.op \in {"pause_process", "resume_process"}
          /\ last.pid = p
          /\ p \in DOMAIN monitored_processes
          /\ monitored_processes[p].state \notin Terminal
          /\ os[p].kind = "child" /\ os[p].ch # "Z"
          /\ \E i \in DOMAIN last.sent : last.sent[i].rc = 0 )
        => get_process_info(monitored_processes, p).state =
               (IF last.op = "pause_process" THEN "PAUSED" ELSE "RUNNING")

\* C3: an observer receives exactly one notification for a process that
\* died, however many ticks have run, and every notification carries state
\* STOPPED and a set end_time.
C3_ExactlyOneNotification ==
    /\ \A cb \in 1..MaxCallbacks, p \in Pids, s \in 1..MaxClock :
           Cardinality(Received(cb, p, s)) <= 1
    /\ \A i \in DOMAIN notifications :
           /\ notifications[i].info.state = "STOPPED"
           /\ notifications[i].info.end_time # 0

\* C4: once a record is in a terminal state (STOPPED, ERROR, KILLED), no
\* step of the monitor thread and no signal operation changes any field of
\* it.
C4_TerminalRecordFrozen ==
    [][\A p \in DOMAIN monitored_processes :
          ( /\ monitored_processes[p].state \in Terminal
            /\ last'.op \in {"none"} \cup SignalOps
                   \cup {"kill_all_processes", "terminate_current_process"} )
          => /\ p \in DOMAIN monitored_processes'
             /\ monitored_processes'[p] = monitored_processes[p]]_vars

\* C5: every step of the monitor thread that moves a record into STOPPED
\* sets the record's end_time and, when observers are registered, notifies
\* them about it in the same step.
C5_StoppedSetsEndTimeAndNotifies ==
    [][\A p \in DOMAIN monitored_processes :
          ( /\ last'.op = "none"
            /\ p \in DOMAIN monitored_processes'
            /\ monitored_processes[p].state # "STOPPED"
            /\ monitored_processes'[p].state = "STOPPED" )
          => /\ monitored_processes'[p].end_time # 0
             /\ state_change_callbacks # <<>> => NotifiedInStep(p)]_vars

\* C6: a launch (execute, execute_async, execute_sync) whose resolved path
\* is not an existing regular file returns the error result and changes
\* nothing: no record, no pre-launch command, no fork, no pipe, no
\* descriptor.
C6_InvalidPathLaunchChangesNothing ==
    [][( /\ sync_wait = 0
         /\ last'.op \in LaunchOps
         /\ resolve_path(last'.path) \notin RegularFiles )
       => /\ last'.ret = (IF last'.op = "execute_async" THEN 0 ELSE -1)
          /\ last'.rtype # "blocked"
          /\ ~last'.forked
          /\ last'.hooks = <<>>
          /\ monitored_processes' = monitored_processes
          /\ os' = os
          /\ stdout_pipe' = stdout_pipe /\ stderr_pipe' = stderr_pipe
          /\ open_fds' = open_fds
          /\ sync_wait' = 0]_vars

\* a launch of a directory has just returned -1 while a pre-launch command
\* is registered and a record of an earlier launch is in the table
C6_Witness ==
    /\ last.op = "execute"
    /\ last.path = "/d"
    /\ last.ret = -1
    /\ pre_launch_commands # <<>>
    /\ DOMAIN monitored_processes # {}

\* C7: a signal operation (pause, resume, kill, terminate) on a pid that is
\* not in the table sends no signal and reports ProcessNotFound.
C7_UnknownPidNoSignal ==
    (last.op \in SignalOps /\ last.pid \notin DOMAIN monitored_processes) =>
        /\ last.sent = <<>>
        /\ last.rtype # "void"

\* C8: no operation signals a pid whose record is in a terminal state.
C8_NoSignalToTerminalRecord ==
    \A i \in DOMAIN last.sent :
        last.sent[i].pid \in DOMAIN monitored_processes =>
            monitored_processes[last.sent[i].pid].state \notin Terminal

\* C9: a signal operation returns a result to its caller (one that tells
\* success from ProcessNotFound and from SignalDeliveryFailed).
C9_SignalOpsReturnResult ==
    last.op \in SignalOps => last.rtype # "void"

\* the values the user gave for key k: custom_environment and
\* config.environment_variables
UserValues(k) ==
    {custom_environment[j] : j \in DOMAIN custom_environment \cap {k}}
        \cup {config.environment_variables[j] :
                 j \in DOMAIN config.environment_variables \cap {k}}

\* C10: in the environment of a launched child every key the user set has a
\* value the user gave, and assembling the environment again changes nothing.
C10_UserOverridesWin ==
    (last.op \in LaunchOps /\ last.forked) =>
        /\ \A k \in EnvKeys :
               UserValues(k) # {} => last.child_env[k] \in UserValues(k)
        /\ assemble_environment(environ, config, custom_environment) = environ

\* C11: a launch (execute, execute_async, execute_sync) leaves the
\* supervisor's own process environment as it was before the call; the
\* assembled environment is only handed to the child.
C11_LaunchLeavesEnvironUnchanged ==
    [][(sync_wait = 0 /\ last'.op \in LaunchOps) => environ' = environ]_vars

\* C12: in a launched child a feature-derived variable has the
\* feature-derived value also when the inherited environment defines the key
\* (and the user did not set it): DISPLAY is ":0" under the x11 driver,
\* WAYLAND_DISPLAY is "wayland-0" under wayland, DXVK_HUD is "devinfo,fps"
\* when DXVK is enabled.
C12_FeatureOverridesInherited ==
    (last.op \in LaunchOps /\ last.forked) =>
        /\ (config.graphics_driver = "x11" /\ UserValues("DISPLAY") = {})
               => last.child_env["DISPLAY"] = ":0"
        /\ (config.graphics_driver = "wayland"
                /\ UserValues("WAYLAND_DISPLAY") = {})
               => last.child_env["WAYLAND_DISPLAY"] = "wayland-0"
        /\ (config.enable_dxvk /\ UserValues("DXVK_HUD") = {})
               => last.child_env["DXVK_HUD"] = "devinfo,fps"

\* C13: a launch that gets past validation and pipe creation but cannot
\* start the child, because fork fails or because execvpe fails in the
\* forked child, returns the error result, registers no record and leaves
\* open none of the capture descriptors it opened.
C13_SpawnFailureReported ==
    [][( /\ sync_wait = 0
         /\ last'.op \in LaunchOps
         /\ validate_executable(resolve_path(last'.path))
         /\ last'.pipe_failed = "none"
         /\ (~last'.forked \/ last'.exec_failed) )
       => /\ last'.ret = (IF last'.op = "execute_async" THEN 0 ELSE -1)
          /\ last'.rtype # "blocked"
          /\ monitored_processes' = monitored_processes
          /\ open_fds' \subseteq open_fds]_vars

\* C14: after any sequence of launches every open capture descriptor is
\* still held in stdout_pipe or stderr_pipe: none was overwritten while
\* open, so the open descriptors never exceed the two pipes' four ends.
C14_NoUnreachableDescriptor ==
    open_fds \subseteq
        {stdout_pipe[1], stdout_pipe[2], stderr_pipe[1], stderr_pipe[2]}

\* C15: a launch in which creating the stdout or the stderr pipe fails
\* returns the error result, forks no child, registers no record and leaves
\* open none of the descriptors it created.
C15_PipeFailureAborts ==
    [][( /\ sync_wait = 0
         /\ last'.op \in LaunchOps
         /\ last'.pipe_failed # "none" )
       => /\ last'.ret = (IF last'.op = "execute_async" THEN 0 ELSE -1)
          /\ last'.rtype # "blocked"
          /\ ~last'.forked
          /\ os' = os
          /\ monitored_processes' = monitored_processes
          /\ open_fds' \subseteq open_fds]_vars

\* the stderr pipe of a launch has just failed after its stdout pipe was
\* created, while the read ends of an earlier launch are open
C15_Witness ==
    /\ last.op \in LaunchOps
    /\ last.pipe_failed = "stderr"
    /\ config.capture_stdout
    /\ last.ret \in {0, -1}
    /\ open_fds # {}
    /\ DOMAIN monitored_processes # {}

\* C16: the process table is only accessed under its mutex: while a tick of
\* the monitor is in progress no other operation changes the table and no
\* record appears in or disappears from it, and a tick that starts visits
\* the table as it then is, from its first record on.
C16_TableAccessUnderLock ==
    [][ /\ (mon_pc \in {"locked", "stats"} /\ last'.op # "none")
            => monitored_processes' = monitored_processes
        /\ mon_pc \in {"locked", "stats"}
            => DOMAIN monitored_processes' = DOMAIN monitored_processes
        /\ (mon_pc = "loop" /\ mon_pc' = "locked")
            => IF DOMAIN monitored_processes = {} THEN mon_cur' = 0
               ELSE mon_cur' = Min(DOMAIN monitored_processes) ]_vars

\* a tick that started after a launch inserted its record is visiting that
\* record
C16_Witness ==
    /\ mon_pc = "stats"
    /\ mon_cur \in DOMAIN monitored_processes
    /\ monitored_processes[mon_cur].state = "STARTING"
    /\ monitored_processes[mon_cur].start_time > 0

\* C17: observers are never called while the process table's lock is held:
\* no notification is delivered in a step that the monitor thread starts and
\* ends inside its locked section.
C17_NoCallbackUnderLock ==
    [][Len(notifications') > Len(notifications)
           => ~(MonitorHoldsLock /\ MonitorHoldsLock')]_vars

\* C18: an observer that throws does not stop the monitor: in a step that
\* notifies about a process every registered observer is called, and the
\* monitor thread stays in its loop for the remaining records and ticks.
C18_ThrowingObserverDoesNotStopMonitor ==
    [][\A p \in Pids :
          NotifiedInStep(p)
          => /\ Len(notifications') - Len(notifications)
                    = Len(state_change_callbacks)
             /\ mon_pc' = "locked"
             /\ ~Aborted']_vars

\* C19: while a synchronous launch is blocked waiting for its child, an
\* asynchronous launch and every signal operation called from another
\* thread can run to their return: none of them waits for the child.
C19_OnlySyncLaunchWaits ==
    sync_wait # 0 =>
        /\ ENABLED (\E exe_path \in Paths, arguments \in ArgLists :
                       \E fork_pid \in ForkResults(exe_path) :
                           \E exec_ok \in ExecResults(fork_pid),
                              garbage \in Garbage(fork_pid) :
                               execute("execute", exe_path, arguments, 0, "none",
                                       fork_pid, exec_ok, garbage))
        /\ ENABLED PauseProcess
        /\ ENABLED ResumeProcess
        /\ ENABLED KillProcess
        /\ ENABLED TerminateProcess

\* C20: the table lock is not held across the blocking wait of a
\* synchronous launch: while execute_sync waits for its child the monitor
\* thread can take every step of its tick (start it, visit a record, update
\* its statistics, end it) and an operation on the table can take the lock.
C20_TableLockFreeDuringSyncWait ==
    sync_wait # 0 =>
        /\ (mon_pc = "loop" /\ monitoring_active /\ clock < MaxClock)
               => ENABLED MonitorTickBegin
        /\ mon_pc = "locked" => ENABLED (MonitorVisit \/ MonitorTickEnd)
        /\ mon_pc = "stats" => ENABLED MonitorStats
        /\ ~MonitorHoldsLock => ENABLED RemoveProcess

\* while execute_sync waits for its child, a tick that started after the
\* child's record was inserted is updating that record
C20_Witness ==
    /\ sync_wait # 0
    /\ last.op = "none"
    /\ mon_pc = "stats"
    /\ mon_cur = sync_wait
    /\ monitored_processes[sync_wait].state = "STARTING"

\* C21: when a call of stop_monitoring has just returned, monitoring is off
\* and the monitor thread is not inside its loop: it has finished its tick
\* and left the thread function, so it takes no further step.
C21_StopReturnsAfterThreadExit ==
    (last.op = "stop_monitoring" /\ last.rtype # "blocked") =>
        /\ ~monitoring_active
        /\ mon_pc \in {"none", "exited"}

\* C22: with the monitor running and scheduled, a tracked process whose
\* child has terminated (reaped or still a zombie) is eventually recorded
\* STOPPED, and a launched record is RUNNING before it is STOPPED: it does
\* not go from STARTING straight to a terminal state.
C22_TerminatedEventuallyStopped ==
    /\ \A p \in Pids :
           ( /\ p \in DOMAIN monitored_processes
             /\ os[p].kind = "free" \/ os[p].ch = "Z"
             /\ monitoring_active
             /\ clock < MaxClock - 1 )
           ~> ( \/ /\ p \in DOMAIN monitored_processes
                   /\ monitored_processes[p].state = "STOPPED"
                \/ os[p].ch \in LiveChars )
    /\ [][\A p \in DOMAIN monitored_processes :
             ( /\ p \in DOMAIN monitored_processes'
               /\ monitored_processes[p].state = "STARTING" )
             => monitored_processes'[p].state \in {"STARTING", "RUNNING"}]_vars

\* C23: a record in a terminal state holds the child's actual result in
\* exit_code: for a terminated child whose wait status is still there to
\* read, the code it exited with or the number of the signal that killed
\* it.
C23_TerminalRecordHoldsExitResult ==
    \A p \in DOMAIN monitored_processes :
        ( /\ monitored_processes[p].state \in Terminal
          /\ os[p].kind = "child"
          /\ os[p].ch = "Z" )
        => monitored_processes[p].exit_code = os[p].n

\* C24: a synchronous launch returns its child's decoded termination, the
\* exit code after a normal exit and the negated signal number after a
\* death by signal, and only once the child has terminated; a synchronous
\* launch that failed returns -1 at once, without waiting.
C24_SyncReturnsDecodedTermination ==
    [][ /\ (sync_wait # 0 /\ sync_wait' = 0)
            => /\ os[sync_wait].ch = "Z"
               /\ last'.op = "execute_sync"
               /\ last'.rtype = "int"
               /\ last'.ret = (IF os[sync_wait].how = "exit"
                               THEN os[sync_wait].n ELSE 0 - os[sync_wait].n)
        /\ (sync_wait = 0 /\ last'.op = "execute_sync" /\ ~last'.forked)
            => /\ last'.rtype = "int"
               /\ last'.ret = -1
               /\ sync_wait' = 0 ]_vars

\* a synchronous launch has just returned -9 for a child that SIGKILL ended
C24_Witness ==
    /\ last.op = "execute_sync"
    /\ last.rtype = "int"
    /\ last.pid # 0
    /\ last.ret = 0 - SIGKILL

\* C25: the post-launch commands run only in the step in which a
\* synchronous launch returns from its wait, after its child has
\* terminated, all of them in their registered order; no launch step
\* (asynchronous, synchronous up to the wait, or failed) and no other
\* operation runs any of them.
C25_PostHooksOnlyAfterSyncWait ==
    [][ /\ (sync_wait # 0 /\ sync_wait' = 0)
            => /\ os[sync_wait].ch = "Z"
               /\ last'.op = "execute_sync"
               /\ last'.post_hooks = post_launch_commands
        /\ ~(sync_wait # 0 /\ sync_wait' = 0) => last'.post_hooks = <<>> ]_vars

\* a synchronous launch has just returned and has run two different
\* post-launch commands
C25_Witness ==
    /\ last.op = "execute_sync"
    /\ last.rtype = "int"
    /\ last.pid # 0
    /\ Len(last.post_hooks) = 2
    /\ last.post_hooks[1] # last.post_hooks[2]

\* C26: a launch that passes validation runs every pre-launch command, in
\* the order they were added, before it spawns the child; a command that
\* fails neither stops the later commands nor aborts the launch, which then
\* fails only if a pipe or fork itself fails.
C26_PreHooksAllRunInOrder ==
    [][( /\ sync_wait = 0
         /\ last'.op \in LaunchOps
         /\ validate_executable(resolve_path(last'.path)) )
       => /\ last'.hooks = pre_launch_commands
          /\ (last'.hook_failed # 0 /\ ~last'.forked)
                 => (last'.pipe_failed # "none" \/ last'.fork_failed)]_vars

\* a launch whose first of two different pre-launch commands failed has
\* run both and forked its child
C26_Witness ==
    /\ last.op \in LaunchOps
    /\ last.hook_failed = 1
    /\ Len(last.hooks) = 2
    /\ last.hooks[1] # last.hooks[2]
    /\ last.forked
    /\ last.pid \in DOMAIN monitored_processes

\* C27: kill_process and terminate_process only send their signal: the
\* process table is the same when they return as it was when they were
\* called, whatever the signal did to the target.
C27_KillAndTerminateLeaveTable ==
    [][last'.op \in {"kill_process", "terminate_process"}
           => monitored_processes' = monitored_processes]_vars

\* kill_process has just delivered a signal that ended a child whose record
\* the monitor had set to RUNNING, and the record is RUNNING still
C27_Witness ==
    /\ last.op = "kill_process"
    /\ last.pid \in DOMAIN monitored_processes
    /\ last.sent # <<>>
    /\ last.sent[1].rc = 0
    /\ os[last.pid].ch = "Z"
    /\ os[last.pid].how = "sig"
    /\ monitored_processes[last.pid].state = "RUNNING"

\* C28: whenever the monitor thread changes the state of a record in the
\* process table, whatever the old and the new state are, every registered
\* callback is called once with the record as it is after the change.
C28_EveryTransitionNotified ==
    [][\A p \in DOMAIN monitored_processes \cap DOMAIN monitored_processes' :
          ( /\ mon_pc \in {"locked", "stats"}
            /\ monitored_processes'[p].state # monitored_processes[p].state )
          => notifications' =
                 notifications \o
                 [i \in 1..Len(state_change_callbacks) |->
                     [callback |-> state_change_callbacks[i],
                      info |-> monitored_processes'[p]]]]_vars

\* C29: a step that notifies about a record calls the callbacks that are
\* registered at that moment, each once and in the order of registration,
\* and no others: after clear_callbacks no callback registered before it is
\* called again.
C29_ObserversInRegistrationOrder ==
    [][Len(notifications') > Len(notifications)
           => \E p \in DOMAIN monitored_processes' :
                 notifications' =
                     notifications \o
                     [i \in 1..Len(state_change_callbacks) |->
                         [callback |-> state_change_callbacks[i],
                          info |-> monitored_processes'[p]]]]_vars

\* C30: the pid, the executable path, the argument list and the start time
\* of a record never change while the record is in the process table,
\* whatever is launched, ticked or signalled, a launch whose child gets the
\* pid of a record already in the table included.
C30_IdentityFieldsNeverChange ==
    [][\A p \in DOMAIN monitored_processes \cap DOMAIN monitored_processes' :
          /\ monitored_processes'[p].pid = monitored_processes[p].pid
          /\ monitored_processes'[p].executable_path
                 = monitored_processes[p].executable_path
          /\ monitored_processes'[p].arguments
                 = monitored_processes[p].arguments
          /\ monitored_processes'[p].start_time
                 = monitored_processes[p].start_time]_vars

\* C31: when the monitor recomputes the state of a record whose process
\* exists, the new state is RUNNING for the run-state characters 'R' and
\* 'S', PAUSED for 'T', STOPPED for 'Z' and RUNNING for any other character.
C31_StateFromRunChar ==
    [][( /\ mon_pc = "stats"
         /\ mon_pc' = "locked"
         /\ os' = os
         /\ os[mon_cur].kind # "free" )
       => monitored_processes'[mon_cur].state =
              IF os[mon_cur].ch \in {"R", "S"} THEN "RUNNING"
              ELSE IF os[mon_cur].ch = "T" THEN "PAUSED"
              ELSE IF os[mon_cur].ch = "Z" THEN "STOPPED"
              ELSE "RUNNING"]_vars

\* a tick has ended that left RUNNING the record of a child in disk wait, a
\* character the switch does not name
C31_Witness ==
    /\ mon_pc = "locked"
    /\ mon_cur = 0
    /\ clock >= 1
    /\ \E p \in DOMAIN monitored_processes :
          /\ os[p].kind = "child"
          /\ os[p].ch = "D"
          /\ monitored_processes[p].state = "RUNNING"

\* C32: the bytes a child writes to a captured standard output or standard
\* error are in its record's stdout / stderr buffer, in the order written:
\* when the synchronous launch of the child returns, after which its pipes
\* are closed, each buffer holds what the child wrote to that stream.
C32_CapturedOutputInRecord ==
    [][( /\ sync_wait # 0
         /\ sync_wait' = 0
         /\ sync_wait \in DOMAIN monitored_processes' )
       => /\ "stdout" \in os[sync_wait].capture
                => monitored_processes'[sync_wait].stdout_data = os[sync_wait].out
          /\ "stderr" \in os[sync_wait].capture
                => monitored_processes'[sync_wait].stderr_data = os[sync_wait].err]_vars

\* C33: no call closes a descriptor number that the executor does not hold
\* open at that moment: a write end closed by the parent after fork is not
\* closed again by close_pipes or by a later launch.
C33_NoDescriptorClosedTwice ==
    last.bad_close = {}

\* C34: a synchronous launch with capture enabled always returns: the child
\* it waits for is never asleep in a write to a capture pipe, a sleep that
\* only a read from the pipe, which the waiting supervisor never makes, or
\* the child's death by a signal would end.
C34_SyncChildNeverBlockedOnCapture ==
    \A p \in Pids :
        ~( /\ sync_wait = p
           /\ os[p].kind = "child"
           /\ os[p].blocked # "none" )

\* C35: there is never more than one monitor thread: a start_monitoring
\* that creates a thread does so only when no thread is running and none is
\* waiting to be joined.
C35_AtMostOneMonitorThread ==
    [][( /\ last'.op = "start_monitoring"
         /\ ~monitoring_active
         /\ monitoring_active' )
       => mon_pc = "none"]_vars

\* C36: every record in the process table is STARTING, RUNNING, PAUSED,
\* STOPPED or ERROR; none is ever IDLE, STOPPING or KILLED.
C36_RecordStatesInUse ==
    \A p \in DOMAIN monitored_processes :
        monitored_processes[p].state
            \in {"STARTING", "RUNNING", "PAUSED", "STOPPED", "ERROR"}

\* a tick has recorded a child stopped by SIGSTOP as PAUSED
C36_Witness ==
    \E p \in DOMAIN monitored_processes :
        /\ os[p].kind = "child"
        /\ os[p].ch = "T"
        /\ monitored_processes[p].state = "PAUSED"

\* C37: is_executing() is false once the child of the latest launch is known
\* to have terminated, and get_current_pid() does not name a terminated
\* child: execution_active does not hold while the table records the
\* current child, which is dead, as STOPPED, and after execute_sync has
\* reaped its child current_process_pid is no longer that child's pid.
C37_ExecutingOnlyWhileChildLives ==
    /\ ( /\ execution_active
         /\ current_process_pid \in DOMAIN monitored_processes )
       => ~( /\ monitored_processes[current_process_pid].state = "STOPPED"
             /\ os[current_process_pid].kind = "free"
                    \/ os[current_process_pid].ch = "Z" )
    /\ ( /\ last.op = "execute_sync"
         /\ last.rtype = "int"
         /\ last.pid > 0
         /\ sync_wait = 0 )
       => current_process_pid # last.pid

\* C38: the environment a launched child receives is the one assembled from
\* the environment inherited at program start, the configuration and the
\* user's variables as they are at that launch: a variable that only an
\* earlier launch had set, and that has since been removed or switched off,
\* is not in it.
C38_ChildEnvFromOwnLaunchOnly ==
    [][( /\ sync_wait = 0
         /\ last'.op \in LaunchOps
         /\ last'.forked )
       => last'.child_env =
              assemble_environment(InheritedEnv, config, custom_environment)]_vars

\* the messages of sequence seq that are in sequence from, in seq's order
Among(seq, from) ==
    SelectSeq(seq, LAMBDA m : \E i \in 1..Len(from) : from[i] = m)

\* C39: every message accepted into log_buffer reaches the sinks, in the
\* order accepted: the accepted messages that have been written are the
\* first of those accepted, and once the worker thread has exited no message
\* is left in the buffer.
C39_AcceptedMessagesAllWritten ==
    /\ Among(logger.written, logger.accepted)
           = SubSeq(logger.accepted, 1,
                    Len(Among(logger.written, logger.accepted)))
    /\ logger.worker_pc \in {"exited", "none"} => logger.log_buffer = <<>>

\* C40: create_prefix for a name that is not in the prefix map returns true
\* and enters the name in the map whenever, on its return, the prefix
\* directory exists and holds the registry file system.reg; for a name that
\* is in the map it returns false and leaves the map as it is.
C40_CreatePrefixSucceeds ==
    [][last'.op = "create_prefix"
       => /\ ( /\ last'.path \notin DOMAIN prefix_configs
               /\ prefix_files'[PrefixPath(last'.path)] = "directory"
               /\ prefix_files'[RegistryPath(last'.path)] = "file" )
             => /\ last'.ret = 1
                /\ last'.path \in DOMAIN prefix_configs'
          /\ last'.path \in DOMAIN prefix_configs
             => /\ last'.ret = 0
                /\ prefix_configs' = prefix_configs]_vars

====
